---- MODULE Spec2Model ----
(***************************************************************************)
(* Model of the security-scan report pipeline of lambda-function/:         *)
(* report_processor.py (dispatcher and the three report handlers),         *)
(* config_manager.py (severity policy) and securityhub_client.py (sink).   *)
(*                                                                         *)
(* Python strings whose characters matter (severity labels, report types)  *)
(* are sequences of one-character strings, so that upper(), lower() and    *)
(* slicing are computed character by character.                            *)
(***************************************************************************)
EXTENDS Integers, Sequences, FiniteSets, TLC

VARIABLES
    config,            \* the loaded configuration (config_manager.config)
    event,             \* the inbound ScanEvent
    pc,                \* position inside process_security_scan_message
    err,               \* the exception that left the invocation, or "none"
    result,            \* the verdict returned to the caller, or "none"
    archive,           \* outcome of the S3 put_object: "none", "ok", "failed"
    s3_puts,           \* number of put_object attempts
    report_url,        \* local report_url of the dispatcher
    called,            \* the report type whose handler was invoked, or NoHandler
    i,                 \* loop index of the running handler (0-based, as range())
    count,             \* local count of the ECR / SNYK handler
    title_list,        \* local title_list of the SNYK handler
    current_vul_level, \* local current_vul_level of the running handler
    sink,              \* the calls of import_security_finding, in order
    sev_pc,            \* position of a bare get_severity_mapping call
    sev_arg,           \* its argument
    sev_ret            \* its return value

vars == <<config, event, pc, err, result, archive, s3_puts, report_url, called,
          i, count, title_list, current_vul_level, sink, sev_pc, sev_arg, sev_ret>>

procVars == <<event, pc, err, result, archive, s3_puts, report_url, called,
              i, count, title_list, current_vul_level, sink>>

sevVars == <<sev_pc, sev_arg, sev_ret>>

----------------------------------------------------------------------------
(* Bounds *)

\* longest findings list of a report
MaxLen == 3

\* longest severity string drawn over SevAlphabet for get_severity_mapping
MaxSevLen == 4

----------------------------------------------------------------------------
(* Characters and strings *)

LowerLetters == <<"a","b","c","d","e","f","g","h","i","j","k","l","m",
                  "n","o","p","q","r","s","t","u","v","w","x","y","z">>

UpperLetters == <<"A","B","C","D","E","F","G","H","I","J","K","L","M",
                  "N","O","P","Q","R","S","T","U","V","W","X","Y","Z">>

UpperChar(c) ==
    IF \E k \in DOMAIN LowerLetters : LowerLetters[k] = c
    THEN UpperLetters[CHOOSE k \in DOMAIN LowerLetters : LowerLetters[k] = c]
    ELSE c

LowerChar(c) ==
    IF \E k \in DOMAIN UpperLetters : UpperLetters[k] = c
    THEN LowerLetters[CHOOSE k \in DOMAIN UpperLetters : UpperLetters[k] = c]
    ELSE c

\* str.upper()
str_upper(s) == [k \in 1..Len(s) |-> UpperChar(s[k])]

\* str.lower()
str_lower(s) == [k \in 1..Len(s) |-> LowerChar(s[k])]

\* s[0:n]
str_prefix(s, n) == SubSeq(s, 1, IF Len(s) < n THEN Len(s) ELSE n)

\* the strings of length at most n over the characters of A
RECURSIVE StringsUpTo(_, _)
StringsUpTo(A, n) ==
    IF n = 0 THEN {<<>>}
    ELSE LET shorter == StringsUpTo(A, n - 1)
         IN  shorter \cup {Append(s, c) : s \in shorter, c \in A}

----------------------------------------------------------------------------
(* Severity labels *)

S_CRITICAL == <<"C","R","I","T","I","C","A","L">>
S_HIGH == <<"H","I","G","H">>
S_MEDIUM == <<"M","E","D","I","U","M">>
S_LOW == <<"L","O","W">>
S_INFORMATIONAL == <<"I","N","F","O","R","M","A","T","I","O","N","A","L">>
S_MED == <<"M","E","D">>
S_HIG == <<"H","I","G">>
S_INF == <<"I","N","F">>

\* spellings scanners produce
S_high == <<"h","i","g","h">>
S_medium == <<"m","e","d","i","u","m">>
S_low == <<"l","o","w">>
S_Hig == <<"H","i","g">>
S_Med == <<"M","e","d">>
S_Low == <<"L","o","w">>
S_Inf == <<"I","n","f">>
S_UNDEFINED == <<"U","N","D","E","F","I","N","E","D">>

\* riskdesc values of a ZAP alert: "<risk> (<confidence>)"
R_HighMedium == <<"H","i","g","h"," ","(","M","e","d","i","u","m",")">>
R_MediumHigh == <<"M","e","d","i","u","m"," ","(","H","i","g","h",")">>
R_LowMedium == <<"L","o","w"," ","(","M","e","d","i","u","m",")">>

----------------------------------------------------------------------------
(* Configuration: config.json is read by ConfigManager._load_config *)

\* severity_mappings.custom_scale
custom_scale ==
    (S_CRITICAL :> 40) @@ (S_HIGH :> 30) @@ (S_MEDIUM :> 20) @@ (S_LOW :> 5)
    @@ (S_INFORMATIONAL :> 0)

\* the values excluded_severities takes in the configurations explored
ExcludedSeverityChoices ==
    { {},
      {S_LOW, S_low, S_Low},
      {S_HIGH, S_high, S_Hig} }

Configs ==
    [excluded_severities : ExcludedSeverityChoices, has_scale : BOOLEAN]

\* the methods class ConfigManager defines
ConfigManagerMethods ==
    {"__init__", "_load_env_file", "_load_config", "_validate_required_env_vars",
     "get_parameter", "get_s3_artifact_bucket_name", "get_severity_mapping",
     "get_finding_type", "get_finding_title", "get_remediation_url",
     "should_exclude_severity", "get_product_arn"}

\* the abbreviation table of get_severity_mapping
severity_variations ==
    (S_MED :> S_MEDIUM) @@ (S_HIG :> S_HIGH) @@ (S_INF :> S_INFORMATIONAL)

\* dict.get(key, default)
dict_get(d, key, default) == IF key \in DOMAIN d THEN d[key] ELSE default

\* get_severity_mapping without the severity.upper() of its first line
get_severity_mapping_no_upper(cfg, severity) ==
    LET normalized_severity == dict_get(severity_variations, severity, severity)
    IN  IF cfg.has_scale
        THEN dict_get(custom_scale, normalized_severity, 1)
        ELSE 1

\* ConfigManager.get_severity_mapping; a configuration without
\* severity_mappings / custom_scale raises KeyError, which is caught
get_severity_mapping(cfg, severity) ==
    LET severity_upper == str_upper(severity)
        normalized_severity ==
            dict_get(severity_variations, severity_upper, severity_upper)
    IN  IF cfg.has_scale
        THEN dict_get(custom_scale, normalized_severity, 1)
        ELSE 1

\* ConfigManager.should_exclude_severity
should_exclude_severity(cfg, severity) == severity \in cfg.excluded_severities

----------------------------------------------------------------------------
(* Events *)

T_ECR == <<"E","C","R">>
T_SNYK == <<"S","N","Y","K">>
T_OWASP_Zap == <<"O","W","A","S","P","-","Z","a","p">>
T_FOO == <<"F","O","O">>

\* no handler was invoked
NoHandler == <<>>

\* the keys of report_handlers
report_handlers == {T_ECR, T_SNYK, T_OWASP_Zap}

ReportTypes == report_handlers \cup {T_FOO}

MessageTypes == {"CodeScanReport", "Heartbeat"}

\* threshold of the verdict upgrade
VulThreshold == 20

\* the severity strings a scanner of each family writes (for OWASP-Zap the
\* riskdesc of the alert)
SeveritiesFor(rt) ==
    IF rt = T_SNYK THEN {S_high, S_medium, S_low}
    ELSE IF rt = T_OWASP_Zap THEN {R_HighMedium, R_MediumHigh, R_LowMedium}
    ELSE {S_HIGH, S_MEDIUM, S_LOW}

\* titles only steer the SNYK handler; the other handlers copy the name
TitlesFor(rt) == IF rt = T_SNYK THEN {"A", "B"} ELSE {"A"}

\* missing: "none"   every field the handler reads is present
\*          "key"    the field read first is absent (severity / title / riskdesc)
\*          "detail" a field read later is absent (name, uri / severity,
\*                   packageName, cvssScore / instances, alert)
EntryCores(rt) ==
    [title : TitlesFor(rt), severity : SeveritiesFor(rt),
     missing : {"none", "key", "detail"}]

\* detail stands for the entry's remaining payload (uri / packageName and
\* cvssScore / instances): every entry of a report carries its own
WithDetail(f) ==
    [k \in DOMAIN f |->
        [title |-> f[k].title, severity |-> f[k].severity,
         missing |-> f[k].missing, detail |-> k]]

\* reports with at most one malformed entry: a handler stops at the first one
AtMostOneMalformed(f) ==
    \A a, b \in DOMAIN f :
        (f[a].missing # "none" /\ f[b].missing # "none") => a = b

FindingLists(rt) ==
    UNION { { WithDetail(f) : f \in {g \in [1..n -> EntryCores(rt)] :
                                        AtMostOneMalformed(g)} } : n \in 0..MaxLen }

Events ==
    UNION { { [messageType |-> mt, reportType |-> rt, build_id |-> "build-1",
               has_container |-> TRUE, findings |-> fl] :
                 mt \in MessageTypes, fl \in FindingLists(rt) }
            \cup
            { [messageType |-> mt, reportType |-> rt, build_id |-> "build-1",
               has_container |-> FALSE, findings |-> <<>>] : mt \in MessageTypes }
          : rt \in ReportTypes }

IdleEvent ==
    [messageType |-> "Heartbeat", reportType |-> T_FOO, build_id |-> "build-1",
     has_container |-> FALSE, findings |-> <<>>]

----------------------------------------------------------------------------
(* Helpers of the handlers *)

\* the raw severity string a handler works with
raw_severity(rt, entry) ==
    IF rt = T_OWASP_Zap THEN str_prefix(entry.severity, 3) ELSE entry.severity

\* f"{count}-{report_type.lower()}-{build_id}"
finding_id(seq, report_type, build_id) == <<seq, str_lower(report_type), build_id>>

\* a membership test that looks at the last recorded title only
title_seen_last_only(title, tl) == tl # <<>> /\ tl[Len(tl)] = title

\* title not in title_list
title_seen(title, tl) == \E k \in DOMAIN tl : tl[k] = title

\* a title recorded only when its entry passes the exclusion check
record_title_if_kept(tl, title, excluded) ==
    IF excluded THEN tl ELSE Append(tl, title)

\* title_list.append(title): it precedes the exclusion check, whose outcome
\* it does not read
record_title(tl, title, excluded) == Append(tl, title)

\* a counter that is never advanced
next_count_stuck(c) == c

\* count += 1
next_count(c) == c + 1

\* normalized_severity > 20
exceeds_threshold(n) == n > VulThreshold

\* a client that ignores the FailedCount of the response
raises_never(failed_count) == FALSE

\* response['FailedCount'] > 0
raises_on_failure(failed_count) == failed_count > 0

\* what batch_import_findings can answer for a batch of one finding
FailedCounts == {0, 1}

\* one call of import_security_finding
SinkCall(idx, cnt, fid, norm, sev, desc, fc) ==
    [idx |-> idx, count |-> cnt, finding_id |-> fid, normalized_severity |-> norm,
     severity |-> sev, description |-> desc, report_url |-> report_url,
     FailedCount |-> fc]

\* the exception leaves process_security_scan_message
Raise(e) ==
    /\ pc' = "failed"
    /\ err' = e

----------------------------------------------------------------------------
(* process_security_scan_message *)

Init ==
    /\ config \in {c \in Configs : c.has_scale}
    /\ event \in Events
    /\ pc = "start"
    /\ err = "none"
    /\ result = "none"
    /\ archive = "none"
    /\ s3_puts = 0
    /\ report_url = "unset"
    /\ called = NoHandler
    /\ i = 0
    /\ count = 0
    /\ title_list = <<>>
    /\ current_vul_level = "none"
    /\ sink = <<>>
    /\ sev_pc = "off"
    /\ sev_arg = <<>>
    /\ sev_ret = 0

\* a dispatcher that does not look at messageType
ValidateMessage_unchecked ==
    /\ pc = "start"
    /\ pc' = "archive"
    /\ UNCHANGED <<config, event, err, result, archive, s3_puts, report_url, called,
                   i, count, title_list, current_vul_level, sink, sevVars>>

\* if event['messageType'] == 'CodeScanReport': ... else: raise ValueError
ValidateMessage ==
    /\ pc = "start"
    /\ IF event.messageType = "CodeScanReport"
       THEN pc' = "archive" /\ err' = err
       ELSE Raise("UnsupportedMessageType")
    /\ UNCHANGED <<config, event, result, archive, s3_puts, report_url, called,
                   i, count, title_list, current_vul_level, sink, sevVars>>

\* the inner try: put_object succeeds or raises; the except branch calls
\* config.get_default_report_url(), an attribute lookup on ConfigManager
ArchiveUpload ==
    /\ pc = "archive"
    /\ s3_puts' = s3_puts + 1
    /\ \E uploaded \in BOOLEAN :
        IF uploaded
        THEN /\ archive' = "ok"
             /\ report_url' = "s3"
             /\ pc' = "dispatch"
             /\ err' = err
        ELSE /\ archive' = "failed"
             /\ IF "get_default_report_url" \in ConfigManagerMethods
                THEN report_url' = "default" /\ pc' = "dispatch" /\ err' = err
                ELSE report_url' = report_url /\ Raise("AttributeError")
    /\ UNCHANGED <<config, event, result, called, i, count, title_list,
                   current_vul_level, sink, sevVars>>

\* if report_type in report_handlers: call it; else: raise ValueError.
\* The handler starts by reading the findings container of its format.
Dispatch ==
    /\ pc = "dispatch"
    /\ IF event.reportType \notin report_handlers
       THEN /\ Raise("UnsupportedReportType")
            /\ UNCHANGED <<called, i, count, title_list, current_vul_level>>
       ELSE /\ called' = event.reportType
            /\ current_vul_level' = "LOW"
            /\ i' = 0
            /\ count' = IF event.reportType = T_OWASP_Zap THEN count ELSE 1
            /\ title_list' = <<>>
            /\ IF event.has_container
               THEN pc' = "loop" /\ err' = err
               ELSE Raise("KeyError")
    /\ UNCHANGED <<config, event, result, archive, s3_puts, report_url, sink, sevVars>>

\* import_security_finding: the call is recorded; a non-zero FailedCount raises
Import(call) ==
    /\ sink' = Append(sink, call)
    /\ IF raises_on_failure(call.FailedCount)
       THEN Raise("SinkFailure") /\ i' = i
       ELSE pc' = pc /\ err' = err /\ i' = i + 1

\* one iteration of the loop of process_ecr_vulnerabilities
EcrStep ==
    /\ pc = "loop"
    /\ called = T_ECR
    /\ i < Len(event.findings)
    /\ LET e == event.findings[i + 1]
           severity == e.severity
           normalized_severity == get_severity_mapping(config, severity)
       IN  IF e.missing # "none"
           THEN /\ Raise("KeyError")
                /\ UNCHANGED <<i, count, current_vul_level, sink>>
           ELSE IF should_exclude_severity(config, severity)
           THEN /\ i' = i + 1
                /\ UNCHANGED <<pc, err, count, current_vul_level, sink>>
           ELSE /\ current_vul_level' =
                       IF exceeds_threshold(normalized_severity)
                       THEN "NOTLOW" ELSE current_vul_level
                /\ count' = next_count(count)
                /\ \E fc \in FailedCounts :
                     Import(SinkCall(i + 1, count',
                                     finding_id(count, event.reportType, event.build_id),
                                     normalized_severity, severity,
                                     <<count, e.title, severity, e.detail>>, fc))
    /\ UNCHANGED <<config, event, result, archive, s3_puts, report_url, called,
                   title_list, sevVars>>

\* one iteration of the loop of process_snyk_vulnerabilities
SnykStep ==
    /\ pc = "loop"
    /\ called = T_SNYK
    /\ i < Len(event.findings)
    /\ LET e == event.findings[i + 1]
           title == e.title
           severity == e.severity
           normalized_severity == get_severity_mapping(config, severity)
       IN  IF e.missing = "key"
           THEN /\ Raise("KeyError")
                /\ UNCHANGED <<i, count, title_list, current_vul_level, sink>>
           ELSE IF title_seen(title, title_list)
           THEN /\ i' = i + 1
                /\ UNCHANGED <<pc, err, count, title_list, current_vul_level, sink>>
           ELSE /\ title_list' = record_title(title_list, title,
                                              should_exclude_severity(config, severity))
                /\ IF e.missing = "detail"
                   THEN /\ Raise("KeyError")
                        /\ UNCHANGED <<i, count, current_vul_level, sink>>
                   ELSE IF should_exclude_severity(config, severity)
                   THEN /\ i' = i + 1
                        /\ UNCHANGED <<pc, err, count, current_vul_level, sink>>
                   ELSE /\ current_vul_level' =
                               IF exceeds_threshold(normalized_severity)
                               THEN "NOTLOW" ELSE current_vul_level
                        /\ count' = next_count(count)
                        /\ \E fc \in FailedCounts :
                             Import(SinkCall(i + 1, count',
                                             finding_id(count, event.reportType,
                                                        event.build_id),
                                             normalized_severity, severity,
                                             <<count, title, e.detail, severity, e.detail>>,
                                             fc))
    /\ UNCHANGED <<config, event, result, archive, s3_puts, report_url, called,
                   sevVars>>

\* one iteration of the loop of process_owasp_zap_alerts
ZapStep ==
    /\ pc = "loop"
    /\ called = T_OWASP_Zap
    /\ i < Len(event.findings)
    /\ LET alertno == i
           e == event.findings[alertno + 1]
           risk_desc == e.severity
           severity == str_prefix(risk_desc, 3)
           normalized_severity == get_severity_mapping(config, severity)
       IN  IF e.missing = "key"
           THEN /\ Raise("KeyError")
                /\ UNCHANGED <<i, current_vul_level, sink>>
           ELSE /\ current_vul_level' =
                       IF exceeds_threshold(normalized_severity)
                       THEN "NOTLOW" ELSE current_vul_level
                /\ IF e.missing = "detail"
                   THEN /\ Raise("KeyError")
                        /\ UNCHANGED <<i, sink>>
                   ELSE \E fc \in FailedCounts :
                          Import(SinkCall(alertno + 1, alertno,
                                          finding_id(alertno, event.reportType,
                                                     event.build_id),
                                          normalized_severity, severity,
                                          <<alertno, e.title, e.detail>>, fc))
    /\ UNCHANGED <<config, event, result, archive, s3_puts, report_url, called,
                   count, title_list, sevVars>>

\* the loop is over: the handler returns current_vul_level and the
\* dispatcher returns it to the caller
ReturnVerdict ==
    /\ pc = "loop"
    /\ i = Len(event.findings)
    /\ pc' = "returned"
    /\ result' = current_vul_level
    /\ UNCHANGED <<config, event, err, archive, s3_puts, report_url, called,
                   i, count, title_list, current_vul_level, sink, sevVars>>

Next ==
    \/ ValidateMessage
    \/ ArchiveUpload
    \/ Dispatch
    \/ EcrStep
    \/ SnykStep
    \/ ZapStep
    \/ ReturnVerdict

Spec == Init /\ [][Next]_vars

----------------------------------------------------------------------------
(* get_severity_mapping on its own *)

\* characters of the drawn severity strings: both cases of H, I, G and blank
SevAlphabet == {"H", "I", "G", "h", "i", "g", " "}

\* labels and spellings too long to be drawn over SevAlphabet
NamedSeverities ==
    {S_CRITICAL, S_HIGH, S_MEDIUM, S_LOW, S_INFORMATIONAL, S_MED, S_HIG, S_INF,
     S_high, S_medium, S_low, S_Hig, S_Med, S_Low, S_Inf, S_UNDEFINED,
     <<" ">> \o S_MEDIUM, S_MED \o <<" ">>, <<" ">> \o S_INF \o <<" ">>}

SeverityInputs == StringsUpTo(SevAlphabet, MaxSevLen) \cup NamedSeverities

SevInit ==
    /\ config \in Configs
    /\ event = IdleEvent
    /\ pc = "idle"
    /\ err = "none"
    /\ result = "none"
    /\ archive = "none"
    /\ s3_puts = 0
    /\ report_url = "unset"
    /\ called = NoHandler
    /\ i = 0
    /\ count = 0
    /\ title_list = <<>>
    /\ current_vul_level = "none"
    /\ sink = <<>>
    /\ sev_pc = "call"
    /\ sev_arg \in SeverityInputs
    /\ sev_ret = 0

CallGetSeverityMapping ==
    /\ sev_pc = "call"
    /\ sev_ret' = get_severity_mapping(config, sev_arg)
    /\ sev_pc' = "ret"
    /\ UNCHANGED <<config, procVars, sev_arg>>

SevNext == CallGetSeverityMapping

SevSpec == SevInit /\ [][SevNext]_vars

----------------------------------------------------------------------------
(* Reference notions of the specification, used to state the properties *)

\* the entry at 1-based position n of the report
Entry(n) == event.findings[n]

\* the raw (pre-normalization) severity string of entry n
RawSeverityOf(n) == raw_severity(event.reportType, Entry(n))

\* entry n is the first of its title (deduplication applies to SNYK only)
FirstOfTitle(n) ==
    event.reportType = T_SNYK =>
        \A m \in 1..(n - 1) : Entry(m).title # Entry(n).title

\* entry n survives deduplication and the exclusion filter
Survives(n) ==
    /\ FirstOfTitle(n)
    /\ RawSeverityOf(n) \notin config.excluded_severities

\* the positions of the surviving entries, in list order
SurvivorSeq ==
    SelectSeq([n \in 1..Len(event.findings) |-> n], LAMBDA n : Survives(n))

\* the positions of the entries handed to import_security_finding, in call order
SubmittedSeq == [k \in 1..Len(sink) |-> sink[k].idx]

Submitted(n) == \E k \in DOMAIN sink : sink[k].idx = n

\* the ordinal score of entry n
ScoreOf(n) == get_severity_mapping(config, RawSeverityOf(n))

\* the sink answered a non-zero failure count to call k
SinkFailedAt(k) == sink[k].FailedCount > 0

NoSinkFailure == \A k \in DOMAIN sink : ~SinkFailedAt(k)

\* the extractor of the report's type reads a field that entry n lacks
LacksRequiredField(n) ==
    IF event.reportType = T_SNYK
    THEN \/ Entry(n).missing = "key"
         \/ Entry(n).missing = "detail" /\ FirstOfTitle(n)
    ELSE Entry(n).missing # "none"

MalformedReport ==
    \/ ~event.has_container
    \/ \E n \in DOMAIN event.findings : LacksRequiredField(n)

Supported == event.messageType = "CodeScanReport" /\ event.reportType \in report_handlers

----------------------------------------------------------------------------
(* Properties *)

\* C1: no finding whose raw severity string is in the exclusion set is ever
\* handed to import_security_finding, whatever the report type.
C1_ExcludedNeverSubmitted ==
    \A k \in DOMAIN sink :
        RawSeverityOf(sink[k].idx) \notin config.excluded_severities

\* C2: a report processed to completion returns NOTLOW exactly when some
\* surviving, submitted finding scores above 20, and LOW otherwise.
C2_VerdictIffSurvivorAboveThreshold ==
    pc = "returned" =>
        /\ result \in {"LOW", "NOTLOW"}
        /\ result = "NOTLOW" <=>
             \E n \in DOMAIN event.findings :
                 Survives(n) /\ Submitted(n) /\ ScoreOf(n) > 20

\* C3: when the sink answers a non-zero failure count to the k-th submission,
\* the k-1 earlier submissions were each made once and accepted and stay
\* recorded, no submission follows, the invocation has failed with the sink's
\* error and no verdict is returned.
C3_SinkFailureHalts ==
    /\ [](\A k \in DOMAIN sink :
            SinkFailedAt(k) =>
                /\ k = Len(sink)
                /\ pc = "failed"
                /\ err = "SinkFailure"
                /\ result = "none"
                /\ \A a \in 1..(k - 1) : ~SinkFailedAt(a)
                /\ \A a, b \in 1..k : sink[a].idx = sink[b].idx => a = b)
    /\ [][/\ Len(sink') >= Len(sink)
          /\ SubSeq(sink', 1, Len(sink)) = sink
          /\ (~NoSinkFailure => sink' = sink /\ pc' = "failed" /\ result' = "none")]_vars

\* the sink rejects the second of three findings
C3_Witness ==
    /\ Len(event.findings) = 3
    /\ Len(sink) = 2
    /\ ~SinkFailedAt(1)
    /\ SinkFailedAt(2)
    /\ pc = "failed"

\* C4: when the S3 upload fails, the default locator URL becomes the report
\* URL and the invocation goes on instead of failing on the upload.
C4_ArchiveFailureRecovered ==
    archive = "failed" =>
        /\ report_url = "default"
        /\ err # "AttributeError"
        /\ (Supported /\ ~MalformedReport /\ NoSinkFailure => pc # "failed")

\* C5: a report that lacks a field its extractor requires makes the invocation
\* fail with no finding of the report submitted.
C5_MalformedSubmitsNothing ==
    (called # NoHandler /\ MalformedReport /\ NoSinkFailure /\ pc \in {"failed", "returned"}) =>
        /\ pc = "failed"
        /\ sink = <<>>

\* C6: an event whose reportType is not in the routing table fails with the
\* unsupported-report-type error; no handler runs and nothing is submitted.
C6_UnsupportedReportType ==
    (event.messageType = "CodeScanReport" /\ event.reportType \notin report_handlers) =>
        /\ pc # "returned"
        /\ called = NoHandler
        /\ sink = <<>>
        /\ (pc = "failed" => err = "UnsupportedReportType")

\* C7: SNYK processing considers only the first entry of each title, with that
\* entry's severity, package name and CVSS score; later entries of the title
\* are neither submitted nor counted in the verdict.
C7_SnykFirstOccurrenceOnly ==
    called = T_SNYK =>
        /\ \A k \in DOMAIN sink :
             LET n == sink[k].idx
             IN  /\ \A m \in 1..(n - 1) : Entry(m).title # Entry(n).title
                 /\ sink[k].severity = Entry(n).severity
                 /\ sink[k].normalized_severity =
                        get_severity_mapping(config, Entry(n).severity)
                 /\ sink[k].description[2] = Entry(n).title
                 /\ sink[k].description[3] = n
                 /\ sink[k].description[4] = Entry(n).severity
                 /\ sink[k].description[5] = n
        /\ \A a, b \in DOMAIN sink :
             Entry(sink[a].idx).title = Entry(sink[b].idx).title => a = b
        /\ pc = "returned" =>
             (result = "NOTLOW" <=>
                \E n \in DOMAIN event.findings :
                    /\ \A m \in 1..(n - 1) : Entry(m).title # Entry(n).title
                    /\ ~should_exclude_severity(config, Entry(n).severity)
                    /\ get_severity_mapping(config, Entry(n).severity) > 20)

\* titles A, B, A: the later A scores above 20 and the verdict stays LOW
C7_Witness ==
    /\ called = T_SNYK
    /\ pc = "returned"
    /\ Len(event.findings) = 3
    /\ Entry(1).title = "A" /\ Entry(2).title = "B" /\ Entry(3).title = "A"
    /\ Entry(1).severity = S_low /\ Entry(3).severity = S_high
    /\ config.excluded_severities = {}
    /\ SubmittedSeq = <<1, 2>>
    /\ result = "LOW"

\* C8: for a report processed to completion the submissions are exactly the
\* surviving entries, each once, in list order.
C8_SubmittedIsSurvivorSubsequence ==
    pc = "returned" => SubmittedSeq = SurvivorSeq

\* the lower-cased report type, written out
LowerCased(rt) ==
    IF rt = T_ECR THEN <<"e","c","r">>
    ELSE IF rt = T_SNYK THEN <<"s","n","y","k">>
    ELSE <<"o","w","a","s","p","-","z","a","p">>

\* C9: within a report the ids of the submitted findings are pairwise
\* distinct; each is a sequence number with the lower-cased report type and
\* the build_id, and the sequence number grows with every submission.
C9_FindingIdsDistinct ==
    /\ \A a, b \in DOMAIN sink : sink[a].finding_id = sink[b].finding_id => a = b
    /\ \A k \in DOMAIN sink :
         /\ sink[k].finding_id[2] = LowerCased(event.reportType)
         /\ sink[k].finding_id[3] = event.build_id
         /\ k > 1 => sink[k].finding_id[1] > sink[k - 1].finding_id[1]

\* three submissions of one report
C9_Witness ==
    /\ Len(sink) = 3
    /\ pc = "returned"

----------------------------------------------------------------------------
(* Reference severity policy of the specification *)

\* strip blanks at both ends
RECURSIVE str_strip(_)
str_strip(s) ==
    IF s = <<>> THEN s
    ELSE IF Head(s) = " " THEN str_strip(Tail(s))
    ELSE IF s[Len(s)] = " " THEN str_strip(SubSeq(s, 1, Len(s) - 1))
    ELSE s

\* a three-character token of the abbreviation table becomes its expansion
Expand(token) ==
    IF Len(token) = 3 /\ token \in {S_MED, S_HIG, S_INF}
    THEN CASE token = S_MED -> S_MEDIUM
           [] token = S_HIG -> S_HIGH
           [] token = S_INF -> S_INFORMATIONAL
    ELSE token

\* normalize as the specification words it: uppercase, trim, expand
NormalizeTrimmed(s) == Expand(str_strip(str_upper(s)))

\* normalize without the trimming
NormalizeUntrimmed(s) == Expand(str_upper(s))

\* score: the configured scale, 1 for a label absent from it
Score(label) ==
    IF config.has_scale /\ label \in DOMAIN custom_scale
    THEN custom_scale[label] ELSE 1

\* C10 as stated: get_severity_mapping(s) = score(normalize(s)) with normalize
\* uppercasing and trimming s before the abbreviation lookup.
C10_MappingTrims ==
    sev_pc = "ret" => sev_ret = Score(NormalizeTrimmed(sev_arg))

\* C10 amended: get_severity_mapping(s) = score(normalize(s)) with normalize
\* uppercasing s, without trimming it, before the abbreviation lookup; an
\* abbreviation scores as its expanded label and the call always returns a score.
C10_MappingUntrimmed ==
    sev_pc = "ret" =>
        /\ sev_ret = Score(NormalizeUntrimmed(sev_arg))
        /\ sev_ret \in Nat
        /\ (str_upper(sev_arg) = S_MED /\ config.has_scale) => sev_ret = 20
        /\ (str_upper(sev_arg) = S_HIG /\ config.has_scale) => sev_ret = 30
        /\ (str_upper(sev_arg) = S_INF /\ config.has_scale) => sev_ret = 0
        /\ ~config.has_scale => sev_ret = 1

\* a mixed-case abbreviation was scored as its expansion
C10_Witness ==
    /\ sev_pc = "ret"
    /\ sev_arg = S_Hig
    /\ config.has_scale
    /\ sev_ret = 30

----------------------------------------------------------------------------
(* Properties of the order of steps *)

\* entry n is the first entry of the list with its title
FirstWithTitle(n) == \A m \in 1..(n - 1) : Entry(m).title # Entry(n).title

\* the title of entry n is shadowed: the first entry with that title has an
\* excluded severity
TitleShadowed(n) ==
    \E f \in DOMAIN event.findings :
        /\ FirstWithTitle(f)
        /\ Entry(f).title = Entry(n).title
        /\ should_exclude_severity(config, Entry(f).severity)

\* C11: in SNYK processing a title counts as seen before the exclusion check:
\* when the first entry of a title has an excluded severity, no entry of that
\* title is submitted and none raises the verdict, whatever the later ones say.
C11_ExcludedFirstShadowsTitle ==
    called = T_SNYK =>
        /\ \A n \in DOMAIN event.findings : TitleShadowed(n) => ~Submitted(n)
        /\ (pc = "returned"
              /\ \A n \in DOMAIN event.findings :
                    get_severity_mapping(config, Entry(n).severity) > VulThreshold
                        => TitleShadowed(n))
             => result = "LOW"

\* the excluded first A hides a later A that is not excluded and scores 30
C11_Witness ==
    /\ called = T_SNYK
    /\ pc = "returned"
    /\ Len(event.findings) = 2
    /\ Entry(1).title = "A" /\ Entry(2).title = "A"
    /\ Entry(1).severity = S_low /\ Entry(2).severity = S_high
    /\ config.excluded_severities = {S_LOW, S_low, S_Low}
    /\ sink = <<>>
    /\ result = "LOW"

====
